---- MODULE Spec2Model ----
(***************************************************************************)
(* Model of src/main.cpp: the two-field SafeStruct with one mutex per      *)
(* field, the trace player execute(), the orchestrator run_once(), the     *)
(* trace generation / parsing that feed them, and main() with its timing   *)
(* table (generate_all_files, measure_all, measure_time).                  *)
(***************************************************************************)
EXTENDS Integers, Sequences, FiniteSets, TLC

(* ------------------------------------------------------------------ *)
(* Bounds and program constants                                        *)
(* ------------------------------------------------------------------ *)

\* main(): const int max_threads = 3
max_threads == 3

\* data.size() of std::array<int, 2>
DataSize == 2

\* total number of operations of one generated configuration (main() uses
\* 400000; the model splits a small total the same way)
NumOps == 3

\* total number of operations of the hand-written action lists
AnyOps == 2

\* total number of operations of the hand-written read/write action lists
WriteOps == 3

\* main's num_ops (400000 in the program) is taken from 0 .. MainOps
MainOps == 2

\* measure_all's repeats (main passes runs = 5)
Repeats == 2

\* the largest num_ops generate_all_files is looked at on its own with
GenOps == 7

\* the largest number of lines of a trace file written by hand
FileLines == 2

\* the number of variants: the bound of the `variant` loops
NumVariants == 3

\* the rows and the columns of main's results[3][3]
TableSize == 3

(* ------------------------------------------------------------------ *)
(* Trace model                                                         *)
(* ------------------------------------------------------------------ *)

\* enum class Op { READ, WRITE, STR }
Op == {"READ", "WRITE", "STR"}

\* struct Action { Op op; int field = -1; int value = 0; }
Action(op, field, value) == [op |-> op, field |-> field, value |-> value]

\* the indices of data and mutexes
Fields == 0 .. (DataSize - 1)

\* the range check of set and get: field < 0 || field >= (int)data.size()
OutOfRange(field) == field < 0 \/ field >= DataSize

\* std::to_string(int) on one decimal digit
DigitChar(d) ==
    CASE d = 0 -> "0" [] d = 1 -> "1" [] d = 2 -> "2" [] d = 3 -> "3"
      [] d = 4 -> "4" [] d = 5 -> "5" [] d = 6 -> "6" [] d = 7 -> "7"
      [] d = 8 -> "8" [] d = 9 -> "9"

RECURSIVE NatToString(_)
NatToString(n) ==
    IF n < 10 THEN DigitChar(n)
    ELSE NatToString(n \div 10) \o DigitChar(n % 10)

\* std::to_string(int): decimal digits, a leading '-' for negatives
to_string(n) == IF n < 0 THEN "-" \o NatToString(0 - n) ELSE NatToString(n)

(* ------------------------------------------------------------------ *)
(* Trace files: generate_file, parse_file, generate_all_files          *)
(* ------------------------------------------------------------------ *)

\* one line of generate_file for a drawn op_type, as its tokens
GenLine(op_type) ==
    CASE op_type = 0 -> <<"read", "0">>
      [] op_type = 1 -> <<"write", "0", "1">>
      [] op_type = 2 -> <<"read", "1">>
      [] op_type = 3 -> <<"write", "1", "1">>
      [] OTHER       -> <<"string">>

\* generate_file: one line per drawn op_type, in order
generate_file(draws) == [i \in 1 .. Len(draws) |-> GenLine(draws[i])]

\* the tokens operator>>(int&) parses completely as a decimal integer
IntTokens == {"0", "1", "2", "7", "-1"}

TokenInt(tok) ==
    CASE tok = "0" -> 0 [] tok = "1" -> 1 [] tok = "2" -> 2 [] tok = "7" -> 7
      [] tok = "-1" -> -1

\* iss >> x for an int x holding `old`, on the k-th token of the line, with
\* `failed` the stream's failbit before: a stream that has failed or is at its
\* end leaves x untouched and fails; a token that is no integer stores 0 and
\* fails; an integer token is stored
ExtractInt(line, k, failed, old) ==
    IF failed \/ k > Len(line)
      THEN [value |-> old, failed |-> TRUE]
    ELSE IF line[k] \in IntTokens
      THEN [value |-> TokenInt(line[k]), failed |-> FALSE]
    ELSE [value |-> 0, failed |-> TRUE]

\* the values an uninitialized int (`int f;`, `int f, v;`) may hold
Indeterminate == {-1, 0, 7}

\* the body of parse_file's loop on one line (its whitespace-separated
\* tokens), jf and jv being what the uninitialized f and v hold: the actions
\* it pushes
ParseLine(line, jf, jv) ==
    IF Len(line) = 0 THEN <<>>
    ELSE IF line[1] = "read"
           THEN LET f == ExtractInt(line, 2, FALSE, jf)
                IN  <<Action("READ", f.value, 0)>>
    ELSE IF line[1] = "write"
           THEN LET f == ExtractInt(line, 2, FALSE, jf)
                    v == ExtractInt(line, 3, f.failed, jv)
                IN  <<Action("WRITE", f.value, v.value)>>
    ELSE IF line[1] = "string"
           THEN <<Action("STR", -1, 0)>>
    ELSE <<>>

\* parse_file on the lines of an opened file, junk[k] being what f and v hold
\* before the extractions of line k
RECURSIVE parse_file(_, _)
parse_file(lines, junk) ==
    IF Len(lines) = 0 THEN <<>>
    ELSE ParseLine(Head(lines), Head(junk)[1], Head(junk)[2])
            \o parse_file(Tail(lines), Tail(junk))

\* every extraction of a line generate_file wrote succeeds, so what f and v
\* held before does not matter
NoJunk(lines) == [k \in 1 .. Len(lines) |-> <<0, 0>>]

\* a split that drops the remainder
PieceSize_DropsRemainder(num_ops, t, i) ==
    num_ops \div t

\* generate_all_files: nops of piece i (0-based) of num_ops split in t
PieceSize(num_ops, t, i) ==
    LET base == num_ops \div t
        rem  == num_ops % t
    IN  base + (IF i < rem THEN 1 ELSE 0)

RECURSIVE PieceStart(_, _, _)
PieceStart(num_ops, t, i) ==
    IF i = 0 THEN 0
    ELSE PieceStart(num_ops, t, i - 1) + PieceSize(num_ops, t, i - 1)

\* the op_types std::discrete_distribution over 5 weights can draw
OpTypes == 0 .. 4

(* ------------------------------------------------------------------ *)
(* State                                                               *)
(* ------------------------------------------------------------------ *)

VARIABLES
    action_lists,  \* run_once's argument: one workload per worker
    data,          \* SafeStruct::data
    mutexes,       \* SafeStruct::mutexes: 0 = free, w = locked by worker w
    pc,            \* where each worker thread is
    it,            \* execute's range-for position in the worker's workload
    first,         \* std::lock's __first of a snapshot in progress
    parts,         \* the to_string results a snapshot has evaluated so far
    val,           \* execute's `val`: <<>> or <<v>> returned by get
    tmp,           \* execute's `tmp`: "" or the string a snapshot returned
    mpc,           \* where run_once (the main thread) is
    mi,            \* run_once's loop index
    written,       \* history: the values each field has held
    hpc,           \* where main() is
    num_ops,       \* main's num_ops
    stream,        \* the op_types the random device lets generate_file draw
    files,         \* the file system: file name -> the lines written to it
    variant,       \* the loop variable `variant` of the function main() is in
    nthreads,      \* its loop variable `t`
    piece,         \* its loop variable `i`
    rep,           \* measure_all's loop variable `r`
    total_time,    \* measure_all's total_time
    results,       \* main's results[3][3]: each cell <<sum, divisor>>
    clock,         \* std::chrono::steady_clock, in steps of the main thread
    start,         \* measure_time's start
    runlog,        \* history: one record for each measure_time that returned
    cell_log       \* history: the indices <<variant, t - 1>> assigned in results

\* the state of main() around a run_once
hvars == <<hpc, num_ops, stream, files, variant, nthreads, piece, rep,
           total_time, results, clock, start, runlog, cell_log>>

vars == <<action_lists, data, mutexes, pc, it, first, parts, val, tmp,
          mpc, mi, written, hvars>>

Workers == 1 .. Len(action_lists)

NoParts == [f \in Fields |-> ""]

\* the state measure_time hands to run_once: a fresh SafeStruct, no thread yet
Fresh(lists) ==
    /\ action_lists = lists
    /\ data = [f \in Fields |-> 0]
    /\ mutexes = [f \in Fields |-> 0]
    /\ pc = [w \in 1 .. Len(lists) |-> "unborn"]
    /\ it = [w \in 1 .. Len(lists) |-> 1]
    /\ first = [w \in 1 .. Len(lists) |-> 0]
    /\ parts = [w \in 1 .. Len(lists) |-> NoParts]
    /\ val = [w \in 1 .. Len(lists) |-> <<>>]
    /\ tmp = [w \in 1 .. Len(lists) |-> ""]
    /\ mpc = "spawn"
    /\ mi = 1
    /\ written = [f \in Fields |-> {0}]

\* measure_all's action_lists for t threads: the files generate_all_files wrote
GeneratedLists(t, draws) ==
    [i \in 1 .. t |->
        LET lines == generate_file(
                SubSeq(draws, PieceStart(NumOps, t, i - 1) + 1,
                       PieceStart(NumOps, t, i - 1) + PieceSize(NumOps, t, i - 1)))
        IN  parse_file(lines, NoJunk(lines))]

\* run_once on the traces main() generated
InitGenerated ==
    \E t \in 1 .. max_threads :
        \E draws \in [1 .. NumOps -> OpTypes] :
            Fresh(GeneratedLists(t, draws))

\* fields and values of actions parse_file can return for files written by
\* hand: fields in and out of range, a value other than the generator's 1
AnyFields == {-1, 0, 1, 2}
AnyValues == {7}

AnyActions ==
    {Action("READ", f, 0) : f \in AnyFields}
      \cup {Action("WRITE", f, v) : f \in AnyFields, v \in AnyValues}
      \cup {Action("STR", -1, 0)}

RECURSIVE SumTo(_, _)
SumTo(lens, i) == IF i = 0 THEN 0 ELSE SumTo(lens, i - 1) + lens[i]

\* workloads of the given lengths cut from one sequence of actions
CutLists(lens, ops) ==
    [i \in 1 .. Len(lens) |->
        SubSeq(ops, SumTo(lens, i - 1) + 1, SumTo(lens, i))]

\* run_once on any action lists of one or two workers (empty workloads
\* included) with AnyOps operations or fewer in all
InitAny ==
    \E t \in 1 .. 2 :
        \E lens \in [1 .. t -> 0 .. AnyOps] :
            /\ SumTo(lens, t) <= AnyOps
            /\ \E ops \in [1 .. SumTo(lens, t) -> AnyActions] :
                   Fresh(CutLists(lens, ops))

\* writes of the two fields with two different values, and a read of field 0
WriteValues == {1, 7}

WriteActions ==
    {Action("READ", 0, 0)}
      \cup {Action("WRITE", f, v) : f \in Fields, v \in WriteValues}

\* run_once on action lists of one or two workers that read and write the
\* fields with different values, WriteOps operations or fewer in all
InitWrites ==
    \E t \in 1 .. 2 :
        \E lens \in [1 .. t -> 0 .. WriteOps] :
            /\ SumTo(lens, t) <= WriteOps
            /\ \E ops \in [1 .. SumTo(lens, t) -> WriteActions] :
                   Fresh(CutLists(lens, ops))

\* double results[3][3] = {}
ZeroTable == [v \in 0 .. (TableSize - 1) |-> [c \in 0 .. (TableSize - 1) |-> <<0, 1>>]]

\* a run_once that is looked at on its own: main() stays inside measure_time,
\* its files and its table are left out
InRun ==
    /\ hpc = "run"
    /\ num_ops = 0
    /\ stream = <<>>
    /\ files = <<>>
    /\ variant = 0
    /\ nthreads = Len(action_lists)
    /\ piece = Len(action_lists)
    /\ rep = 0
    /\ total_time = 0
    /\ results = <<>>
    /\ clock = 1
    /\ start = 0
    /\ runlog = <<>>
    /\ cell_log = <<>>

Init == (InitGenerated \/ InitAny \/ InitWrites) /\ InRun

(* ------------------------------------------------------------------ *)
(* SafeStruct::set                                                     *)
(* ------------------------------------------------------------------ *)

\* the action the worker is executing: *it of execute's range-for
Cur(w) == action_lists[w][it[w]]

\* a loop that steps over the action after the one just executed
Return_SkipsOne(w) ==
    /\ pc' = [pc EXCEPT ![w] = "loop"]
    /\ it' = [it EXCEPT ![w] = it[w] + 2]

\* the operation returns to execute's loop, which steps to the next action
Return(w) ==
    /\ pc' = [pc EXCEPT ![w] = "loop"]
    /\ it' = [it EXCEPT ![w] = it[w] + 1]

\* a set that takes mutexes[0] before it checks the field
SetInvalid_LocksFirst(w) ==
    /\ pc[w] = "set"
    /\ OutOfRange(Cur(w).field)
    /\ mutexes[0] = 0
    /\ Return(w)
    /\ UNCHANGED <<action_lists, data, mutexes, first, parts, val, tmp,
                   mpc, mi, written>>

\* a set that stores the value in data[0] when the field is out of range
SetInvalid_Clamps(w) ==
    /\ pc[w] = "set"
    /\ OutOfRange(Cur(w).field)
    /\ data' = [data EXCEPT ![0] = Cur(w).value]
    /\ Return(w)
    /\ UNCHANGED <<action_lists, mutexes, first, parts, val, tmp,
                   mpc, mi, written>>

\* set, line 20: field out of range, return with no effect
SetInvalid(w) ==
    /\ pc[w] = "set"
    /\ OutOfRange(Cur(w).field)
    /\ Return(w)
    /\ UNCHANGED <<action_lists, data, mutexes, first, parts, val, tmp,
                   mpc, mi, written>>

\* a set that takes the mutex without waiting for it to be free
SetLock_NoWait(w) ==
    /\ pc[w] = "set"
    /\ ~OutOfRange(Cur(w).field)
    /\ mutexes' = [mutexes EXCEPT ![Cur(w).field] = w]
    /\ pc' = [pc EXCEPT ![w] = "set_write"]
    /\ UNCHANGED <<action_lists, data, it, first, parts, val, tmp,
                   mpc, mi, written>>

\* set, line 21: unique_lock lock(mutexes[field]) blocks until the mutex is free
SetLock(w) ==
    /\ pc[w] = "set"
    /\ ~OutOfRange(Cur(w).field)
    /\ mutexes[Cur(w).field] = 0
    /\ mutexes' = [mutexes EXCEPT ![Cur(w).field] = w]
    /\ pc' = [pc EXCEPT ![w] = "set_write"]
    /\ UNCHANGED <<action_lists, data, it, first, parts, val, tmp,
                   mpc, mi, written>>

\* a set that stores the field index instead of the value
SetWrite_StoresField(w) ==
    /\ pc[w] = "set_write"
    /\ data' = [data EXCEPT ![Cur(w).field] = Cur(w).field]
    /\ written' = [written EXCEPT ![Cur(w).field] = @ \cup {Cur(w).field}]
    /\ pc' = [pc EXCEPT ![w] = "set_unlock"]
    /\ UNCHANGED <<action_lists, mutexes, it, first, parts, val, tmp, mpc, mi>>

\* a set that stores the value in every field
SetWrite_AllFields(w) ==
    /\ pc[w] = "set_write"
    /\ data' = [f \in Fields |-> Cur(w).value]
    /\ written' = [written EXCEPT ![Cur(w).field] = @ \cup {Cur(w).value}]
    /\ pc' = [pc EXCEPT ![w] = "set_unlock"]
    /\ UNCHANGED <<action_lists, mutexes, it, first, parts, val, tmp, mpc, mi>>

\* set, line 22: data[field] = value
SetWrite(w) ==
    /\ pc[w] = "set_write"
    /\ data' = [data EXCEPT ![Cur(w).field] = Cur(w).value]
    /\ written' = [written EXCEPT ![Cur(w).field] = @ \cup {Cur(w).value}]
    /\ pc' = [pc EXCEPT ![w] = "set_unlock"]
    /\ UNCHANGED <<action_lists, mutexes, it, first, parts, val, tmp, mpc, mi>>

\* a set that returns without releasing the mutex
SetUnlock_Leaks(w) ==
    /\ pc[w] = "set_unlock"
    /\ Return(w)
    /\ UNCHANGED <<action_lists, data, mutexes, first, parts, val, tmp,
                   mpc, mi, written>>

\* set, line 23: ~unique_lock releases the mutex, set returns
SetUnlock(w) ==
    /\ pc[w] = "set_unlock"
    /\ mutexes' = [mutexes EXCEPT ![Cur(w).field] = 0]
    /\ Return(w)
    /\ UNCHANGED <<action_lists, data, first, parts, val, tmp, mpc, mi, written>>

(* ------------------------------------------------------------------ *)
(* SafeStruct::get                                                     *)
(* ------------------------------------------------------------------ *)

\* a get that returns data[0] for a field out of range
GetInvalid_ReadsData(w) ==
    /\ pc[w] = "get"
    /\ OutOfRange(Cur(w).field)
    /\ val' = [val EXCEPT ![w] = <<data[0]>>]
    /\ Return(w)
    /\ UNCHANGED <<action_lists, data, mutexes, first, parts, tmp,
                   mpc, mi, written>>

\* get, line 26: field out of range, return 0
GetInvalid(w) ==
    /\ pc[w] = "get"
    /\ OutOfRange(Cur(w).field)
    /\ val' = [val EXCEPT ![w] = <<0>>]
    /\ Return(w)
    /\ UNCHANGED <<action_lists, data, mutexes, first, parts, tmp,
                   mpc, mi, written>>

\* a get that waits until every mutex of the record is free
GetLock_AllFree(w) ==
    /\ pc[w] = "get"
    /\ ~OutOfRange(Cur(w).field)
    /\ \A f \in Fields : mutexes[f] = 0
    /\ mutexes' = [mutexes EXCEPT ![Cur(w).field] = w]
    /\ pc' = [pc EXCEPT ![w] = "get_read"]
    /\ UNCHANGED <<action_lists, data, it, first, parts, val, tmp,
                   mpc, mi, written>>

\* get, line 27: unique_lock lock(mutexes[field]) blocks until the mutex is free
GetLock(w) ==
    /\ pc[w] = "get"
    /\ ~OutOfRange(Cur(w).field)
    /\ mutexes[Cur(w).field] = 0
    /\ mutexes' = [mutexes EXCEPT ![Cur(w).field] = w]
    /\ pc' = [pc EXCEPT ![w] = "get_read"]
    /\ UNCHANGED <<action_lists, data, it, first, parts, val, tmp,
                   mpc, mi, written>>

\* get returning the other field's value (a wrong index)
GetRead_OtherField(w) ==
    /\ pc[w] = "get_read"
    /\ val' = [val EXCEPT ![w] = <<data[(Cur(w).field + 1) % DataSize]>>]
    /\ pc' = [pc EXCEPT ![w] = "get_unlock"]
    /\ UNCHANGED <<action_lists, data, mutexes, it, first, parts, tmp,
                   mpc, mi, written>>

\* get, line 28: the return value is read from data[field]
GetRead(w) ==
    /\ pc[w] = "get_read"
    /\ val' = [val EXCEPT ![w] = <<data[Cur(w).field]>>]
    /\ pc' = [pc EXCEPT ![w] = "get_unlock"]
    /\ UNCHANGED <<action_lists, data, mutexes, it, first, parts, tmp,
                   mpc, mi, written>>

\* get, line 29: ~unique_lock releases the mutex, get returns the value read
GetUnlock(w) ==
    /\ pc[w] = "get_unlock"
    /\ mutexes' = [mutexes EXCEPT ![Cur(w).field] = 0]
    /\ Return(w)
    /\ UNCHANGED <<action_lists, data, first, parts, val, tmp, mpc, mi, written>>

(* ------------------------------------------------------------------ *)
(* SafeStruct::operator std::string                                    *)
(* ------------------------------------------------------------------ *)

\* the other mutex of the pair std::lock is given
OtherLock(f) == (f + 1) % DataSize

\* std::lock, line 34, as the standard library implements it for two locks
\* (try and back off): lock() the lock the round starts with, try_lock() the
\* other; if that fails unlock the first and start the next round with the
\* lock that could not be taken.  This step: the blocking lock().
StrLock(w) ==
    /\ pc[w] = "str"
    /\ mutexes[first[w]] = 0
    /\ mutexes' = [mutexes EXCEPT ![first[w]] = w]
    /\ pc' = [pc EXCEPT ![w] = "str_try"]
    /\ UNCHANGED <<action_lists, data, it, first, parts, val, tmp,
                   mpc, mi, written>>

\* a snapshot that goes on to read without holding the second lock
StrTryOk_NoSecondLock(w) ==
    /\ pc[w] = "str_try"
    /\ pc' = [pc EXCEPT ![w] = "str_read"]
    /\ UNCHANGED <<action_lists, data, mutexes, it, first, parts, val, tmp,
                   mpc, mi, written>>

\* std::lock, line 34: try_lock() of the other lock succeeds, both are held
StrTryOk(w) ==
    /\ pc[w] = "str_try"
    /\ mutexes[OtherLock(first[w])] = 0
    /\ mutexes' = [mutexes EXCEPT ![OtherLock(first[w])] = w]
    /\ pc' = [pc EXCEPT ![w] = "str_read"]
    /\ UNCHANGED <<action_lists, data, it, first, parts, val, tmp,
                   mpc, mi, written>>

\* a snapshot that ignores the result of try_lock() and goes on to read
StrTryFail_Ignored(w) ==
    /\ pc[w] = "str_try"
    /\ mutexes[OtherLock(first[w])] # 0
    /\ pc' = [pc EXCEPT ![w] = "str_read"]
    /\ UNCHANGED <<action_lists, data, mutexes, it, first, parts, val, tmp,
                   mpc, mi, written>>

\* std::lock, line 34: try_lock() of the other lock fails
StrTryFail(w) ==
    /\ pc[w] = "str_try"
    /\ mutexes[OtherLock(first[w])] # 0
    /\ pc' = [pc EXCEPT ![w] = "str_backoff"]
    /\ UNCHANGED <<action_lists, data, mutexes, it, first, parts, val, tmp,
                   mpc, mi, written>>

\* a back-off that keeps the held lock while it waits for the other one
StrBackoff_KeepsLock(w) ==
    /\ pc[w] = "str_backoff"
    /\ first' = [first EXCEPT ![w] = (first[w] + 1) % DataSize]
    /\ pc' = [pc EXCEPT ![w] = "str"]
    /\ UNCHANGED <<action_lists, data, mutexes, it, parts, val, tmp,
                   mpc, mi, written>>

\* std::lock, line 34: after a failed try_lock() the held lock is released and
\* the next round starts with the lock that could not be taken
StrBackoff(w) ==
    /\ pc[w] = "str_backoff"
    /\ mutexes' = [mutexes EXCEPT ![first[w]] = 0]
    /\ first' = [first EXCEPT ![w] = OtherLock(first[w])]
    /\ pc' = [pc EXCEPT ![w] = "str"]
    /\ UNCHANGED <<action_lists, data, it, parts, val, tmp, mpc, mi, written>>

\* line 36: the string built from the two evaluated operands
Concat(p) == p[0] \o " " \o p[1]

\* line 36: std::to_string(data[f]) for one operand not yet evaluated (the
\* order of the two operands is unspecified); after the second the string to
\* return is built
StrRead(w) ==
    /\ pc[w] = "str_read"
    /\ \E f \in Fields :
        /\ parts[w][f] = ""
        /\ LET p == [parts[w] EXCEPT ![f] = to_string(data[f])]
           IN  IF \A g \in Fields : p[g] # ""
                 THEN /\ tmp' = [tmp EXCEPT ![w] = Concat(p)]
                      /\ parts' = [parts EXCEPT ![w] = NoParts]
                      /\ pc' = [pc EXCEPT ![w] = "str_unlock1"]
                 ELSE /\ parts' = [parts EXCEPT ![w] = p]
                      /\ UNCHANGED <<tmp, pc>>
    /\ UNCHANGED <<action_lists, data, mutexes, it, first, val, mpc, mi, written>>

\* line 37: ~lock1 releases mutexes[1]
StrUnlock1(w) ==
    /\ pc[w] = "str_unlock1"
    /\ mutexes' = [mutexes EXCEPT ![1] = 0]
    /\ pc' = [pc EXCEPT ![w] = "str_unlock0"]
    /\ UNCHANGED <<action_lists, data, it, first, parts, val, tmp,
                   mpc, mi, written>>

\* line 37: ~lock0 releases mutexes[0], the conversion returns the string
StrUnlock0(w) ==
    /\ pc[w] = "str_unlock0"
    /\ mutexes' = [mutexes EXCEPT ![0] = 0]
    /\ first' = [first EXCEPT ![w] = 0]
    /\ Return(w)
    /\ UNCHANGED <<action_lists, data, parts, val, tmp, mpc, mi, written>>

(* ------------------------------------------------------------------ *)
(* execute                                                             *)
(* ------------------------------------------------------------------ *)

\* lines 99-105: the call execute makes for an action
OpEntry(a) ==
    IF a.op = "READ" THEN "get"
    ELSE IF a.op = "WRITE" THEN "set"
    ELSE "str"

\* line 98: the loop takes the next action and calls the operation for it;
\* val and tmp of the previous iteration are gone
ExecNext(w) ==
    /\ pc[w] = "loop"
    /\ it[w] <= Len(action_lists[w])
    /\ pc' = [pc EXCEPT ![w] = OpEntry(Cur(w))]
    /\ val' = [val EXCEPT ![w] = <<>>]
    /\ tmp' = [tmp EXCEPT ![w] = ""]
    /\ UNCHANGED <<action_lists, data, mutexes, it, first, parts, mpc, mi, written>>

\* an execute that waits for every mutex to be free before it returns
ExecEnd_WaitsForMutexes(w) ==
    /\ pc[w] = "loop"
    /\ it[w] > Len(action_lists[w])
    /\ \A f \in Fields : mutexes[f] = 0
    /\ pc' = [pc EXCEPT ![w] = "done"]
    /\ val' = [val EXCEPT ![w] = <<>>]
    /\ tmp' = [tmp EXCEPT ![w] = ""]
    /\ UNCHANGED <<action_lists, data, mutexes, it, first, parts, mpc, mi, written>>

\* line 98: the workload is exhausted, execute returns and the thread ends
ExecEnd(w) ==
    /\ pc[w] = "loop"
    /\ it[w] > Len(action_lists[w])
    /\ pc' = [pc EXCEPT ![w] = "done"]
    /\ val' = [val EXCEPT ![w] = <<>>]
    /\ tmp' = [tmp EXCEPT ![w] = ""]
    /\ UNCHANGED <<action_lists, data, mutexes, it, first, parts, mpc, mi, written>>

(* ------------------------------------------------------------------ *)
(* run_once                                                            *)
(* ------------------------------------------------------------------ *)

\* lines 114-116: threads.emplace_back(execute, actions, s) for the next
\* workload; after the last one the join loop starts
Spawn ==
    /\ mpc = "spawn"
    /\ mi <= Len(action_lists)
    /\ pc' = [pc EXCEPT ![mi] = "loop"]
    /\ IF mi = Len(action_lists)
         THEN mpc' = "join" /\ mi' = 1
         ELSE mpc' = "spawn" /\ mi' = mi + 1
    /\ UNCHANGED <<action_lists, data, mutexes, it, first, parts, val, tmp, written>>

\* a join loop that does not wait for the thread to end
Join_NoWait ==
    /\ mpc = "join"
    /\ mi <= Len(action_lists)
    /\ IF mi = Len(action_lists)
         THEN mpc' = "returned" /\ mi' = 1
         ELSE mpc' = "join" /\ mi' = mi + 1
    /\ UNCHANGED <<action_lists, data, mutexes, pc, it, first, parts, val, tmp,
                   written>>

\* lines 117-118: t.join() returns once thread t has ended; after the last
\* one run_once returns
Join ==
    /\ mpc = "join"
    /\ mi <= Len(action_lists)
    /\ pc[mi] = "done"
    /\ IF mi = Len(action_lists)
         THEN mpc' = "returned" /\ mi' = 1
         ELSE mpc' = "join" /\ mi' = mi + 1
    /\ UNCHANGED <<action_lists, data, mutexes, pc, it, first, parts, val, tmp,
                   written>>

(* ------------------------------------------------------------------ *)
(* main: generate_all_files, measure_all, measure_time                 *)
(* ------------------------------------------------------------------ *)

\* main's tags
tags == <<"A_variant", "B_variant", "C_variant">>

\* the file name generate_all_files and measure_all build for piece i of
\* variant v with t threads
FileName(v, t, i) ==
    "input_" \o tags[v + 1] \o "_" \o to_string(t) \o "_" \o to_string(i) \o ".txt"

\* no SafeStruct and no thread exists
NoRun ==
    /\ action_lists = <<>>
    /\ data = [f \in Fields |-> 0]
    /\ mutexes = [f \in Fields |-> 0]
    /\ pc = <<>>
    /\ it = <<>>
    /\ first = <<>>
    /\ parts = <<>>
    /\ val = <<>>
    /\ tmp = <<>>
    /\ mpc = "spawn"
    /\ mi = 1
    /\ written = [f \in Fields |-> {0}]

\* main() is about to call generate_all_files with n operations to split, the
\* random device holding the draws d
MainStarts(n, d) ==
    /\ hpc = "generate"
    /\ num_ops = n
    /\ stream = d
    /\ files = <<>>
    /\ variant = 0
    /\ nthreads = 1
    /\ piece = 0
    /\ rep = 0
    /\ total_time = 0
    /\ results = ZeroTable
    /\ clock = 0
    /\ start = 0
    /\ runlog = <<>>
    /\ cell_log = <<>>

\* a step of the main thread inside run_once: time passes
Tick ==
    /\ clock' = clock + 1
    /\ UNCHANGED <<hpc, num_ops, stream, files, variant, nthreads, piece, rep,
                   total_time, results, start, runlog, cell_log>>

\* the op_types generate_file draws for piece i of t: its cut of the stream
Draws(t, i) ==
    SubSeq(stream, PieceStart(num_ops, t, i) + 1,
                   PieceStart(num_ops, t, i) + PieceSize(num_ops, t, i))

\* lines 135-146: one round of generate_all_files' innermost loop writes one
\* file; after the last file main() goes on to measure_all
GenerateFile ==
    /\ hpc = "generate"
    /\ files' = [name \in DOMAIN files \cup {FileName(variant, nthreads, piece)} |->
                    IF name = FileName(variant, nthreads, piece)
                      THEN generate_file(Draws(nthreads, piece))
                      ELSE files[name]]
    /\ IF piece + 1 < nthreads
         THEN piece' = piece + 1 /\ UNCHANGED <<variant, nthreads, hpc>>
       ELSE IF variant + 1 < NumVariants
         THEN piece' = 0 /\ variant' = variant + 1 /\ UNCHANGED <<nthreads, hpc>>
       ELSE IF nthreads + 1 <= max_threads
         THEN piece' = 0 /\ variant' = 0 /\ nthreads' = nthreads + 1
              /\ UNCHANGED hpc
       ELSE piece' = 0 /\ variant' = 0 /\ nthreads' = 1 /\ hpc' = "parse"
    /\ UNCHANGED <<action_lists, data, mutexes, pc, it, first, parts, val, tmp,
                   mpc, mi, written>>
    /\ UNCHANGED <<num_ops, stream, rep, total_time, results, clock, start,
                   runlog, cell_log>>

\* parse_file on the lines of an opened file: every list of actions it can
\* return, the uninitialized f and v holding any value at each line
RECURSIVE ParseResults(_)
ParseResults(lines) ==
    IF Len(lines) = 0 THEN {<<>>}
    ELSE {head \o rest :
             head \in {ParseLine(Head(lines), jf, jv) :
                          jf \in Indeterminate, jv \in Indeterminate},
             rest \in ParseResults(Tail(lines))}

\* lines 161-166: action_lists.push_back(parse_file(filename)); a file that
\* cannot be opened gives no action
ParseFile ==
    /\ hpc = "parse"
    /\ piece < nthreads
    /\ LET filename == FileName(variant, nthreads, piece)
       IN  IF filename \in DOMAIN files
             THEN \E actions \in ParseResults(files[filename]) :
                      action_lists' = Append(action_lists, actions)
             ELSE action_lists' = Append(action_lists, <<>>)
    /\ piece' = piece + 1
    /\ UNCHANGED <<data, mutexes, pc, it, first, parts, val, tmp, mpc, mi, written>>
    /\ UNCHANGED <<hpc, num_ops, stream, files, variant, nthreads, rep,
                   total_time, results, clock, start, runlog, cell_log>>

\* a measure_time that goes on with the record the run before left behind
MeasureStart_KeepsRecord ==
    /\ hpc = "parse"
    /\ piece = nthreads
    /\ UNCHANGED <<data, mutexes, written>>
    /\ pc' = [w \in 1 .. Len(action_lists) |-> "unborn"]
    /\ it' = [w \in 1 .. Len(action_lists) |-> 1]
    /\ first' = [w \in 1 .. Len(action_lists) |-> 0]
    /\ parts' = [w \in 1 .. Len(action_lists) |-> NoParts]
    /\ val' = [w \in 1 .. Len(action_lists) |-> <<>>]
    /\ tmp' = [w \in 1 .. Len(action_lists) |-> ""]
    /\ mpc' = "spawn"
    /\ mi' = 1
    /\ start' = clock
    /\ clock' = clock + 1
    /\ hpc' = "run"
    /\ UNCHANGED <<action_lists, num_ops, stream, files, variant, nthreads, piece,
                   rep, total_time, results, runlog, cell_log>>

\* lines 122-124: SafeStruct s; start = now(); run_once(s, action_lists) is
\* entered
MeasureStart ==
    /\ hpc = "parse"
    /\ piece = nthreads
    /\ data' = [f \in Fields |-> 0]
    /\ mutexes' = [f \in Fields |-> 0]
    /\ written' = [f \in Fields |-> {0}]
    /\ pc' = [w \in 1 .. Len(action_lists) |-> "unborn"]
    /\ it' = [w \in 1 .. Len(action_lists) |-> 1]
    /\ first' = [w \in 1 .. Len(action_lists) |-> 0]
    /\ parts' = [w \in 1 .. Len(action_lists) |-> NoParts]
    /\ val' = [w \in 1 .. Len(action_lists) |-> <<>>]
    /\ tmp' = [w \in 1 .. Len(action_lists) |-> ""]
    /\ mpc' = "spawn"
    /\ mi' = 1
    /\ start' = clock
    /\ clock' = clock + 1
    /\ hpc' = "run"
    /\ UNCHANGED <<action_lists, num_ops, stream, files, variant, nthreads, piece,
                   rep, total_time, results, runlog, cell_log>>

\* measure_time's return value: end - start
Duration == clock - start

\* lines 125-126 and 168: run_once has returned; end = now(); total_time +=
\* the duration; the round of the r loop ends, and with it action_lists
MeasureEnd ==
    /\ hpc = "run"
    /\ mpc = "returned"
    /\ clock' = clock + 1
    /\ total_time' = total_time + Duration
    /\ runlog' = Append(runlog, [variant  |-> variant,
                                 t        |-> nthreads,
                                 workers  |-> Len(action_lists),
                                 duration |-> Duration,
                                 final    |-> data])
    /\ rep' = rep + 1
    /\ hpc' = IF rep + 1 < Repeats THEN "parse" ELSE "assign"
    /\ piece' = 0
    /\ action_lists' = <<>>
    /\ pc' = <<>>
    /\ it' = <<>>
    /\ first' = <<>>
    /\ parts' = <<>>
    /\ val' = <<>>
    /\ tmp' = <<>>
    /\ mpc' = "spawn"
    /\ mi' = 1
    /\ UNCHANGED <<data, mutexes, written>>
    /\ UNCHANGED <<num_ops, stream, files, variant, nthreads, results, start,
                   cell_log>>

\* results[variant][t - 1] = total_time / repeats, written into a table of
\* TableSize rows and columns
StoreCell(table, v, c, x) ==
    IF v \in DOMAIN table /\ c \in DOMAIN table[v]
      THEN [table EXCEPT ![v][c] = x]
      ELSE table

\* a cell assignment after which total_time goes on from where it was
CellWrite_KeepsTotal ==
    /\ hpc = "assign"
    /\ results' = StoreCell(results, variant, nthreads - 1, <<total_time, Repeats>>)
    /\ cell_log' = Append(cell_log, <<variant, nthreads - 1>>)
    /\ rep' = 0
    /\ IF nthreads + 1 <= max_threads
         THEN nthreads' = nthreads + 1 /\ hpc' = "parse" /\ UNCHANGED variant
       ELSE IF variant + 1 < NumVariants
         THEN nthreads' = 1 /\ variant' = variant + 1 /\ hpc' = "parse"
       ELSE hpc' = "print" /\ UNCHANGED <<variant, nthreads>>
    /\ UNCHANGED <<action_lists, data, mutexes, pc, it, first, parts, val, tmp,
                   mpc, mi, written>>
    /\ UNCHANGED <<num_ops, stream, files, piece, clock, start, runlog, total_time>>

\* line 171, and the loop heads of lines 156-158: the cell is assigned and the
\* next configuration starts with total_time = 0.0
CellWrite ==
    /\ hpc = "assign"
    /\ results' = StoreCell(results, variant, nthreads - 1, <<total_time, Repeats>>)
    /\ cell_log' = Append(cell_log, <<variant, nthreads - 1>>)
    /\ total_time' = 0
    /\ rep' = 0
    /\ IF nthreads + 1 <= max_threads
         THEN nthreads' = nthreads + 1 /\ hpc' = "parse" /\ UNCHANGED variant
       ELSE IF variant + 1 < NumVariants
         THEN nthreads' = 1 /\ variant' = variant + 1 /\ hpc' = "parse"
       ELSE hpc' = "print" /\ UNCHANGED <<variant, nthreads>>
    /\ UNCHANGED <<action_lists, data, mutexes, pc, it, first, parts, val, tmp,
                   mpc, mi, written>>
    /\ UNCHANGED <<num_ops, stream, files, piece, clock, start, runlog>>

(* ------------------------------------------------------------------ *)
(* Specifications                                                      *)
(* ------------------------------------------------------------------ *)

\* one step of worker thread w
WorkerStep(w) ==
    \/ ExecNext(w)
    \/ ExecEnd(w)
    \/ SetInvalid(w)
    \/ SetLock(w)
    \/ SetWrite(w)
    \/ SetUnlock(w)
    \/ GetInvalid(w)
    \/ GetLock(w)
    \/ GetRead(w)
    \/ GetUnlock(w)
    \/ StrLock(w)
    \/ StrTryOk(w)
    \/ StrTryFail(w)
    \/ StrBackoff(w)
    \/ StrRead(w)
    \/ StrUnlock1(w)
    \/ StrUnlock0(w)

Next ==
    \/ Spawn /\ Tick
    \/ Join /\ Tick
    \/ \E w \in Workers : WorkerStep(w) /\ UNCHANGED hvars

Spec == Init /\ [][Next]_vars

\* the scheduler runs every thread that stays runnable: weak fairness of the
\* main thread's steps and of each worker thread's steps (std::mutex promises
\* no order among the threads that wait for it)
Fairness ==
    /\ WF_vars(Spawn /\ Tick)
    /\ WF_vars(Join /\ Tick)
    /\ \A w \in 1 .. max_threads :
          WF_vars(w \in Workers /\ WorkerStep(w) /\ UNCHANGED hvars)

FairSpec == Spec /\ Fairness

\* main() from its start: the trace files are generated, then every
\* configuration is measured Repeats times
InitMain ==
    /\ NoRun
    /\ \E n \in 0 .. MainOps :
           \E d \in [1 .. n -> OpTypes] : MainStarts(n, d)

NextMain ==
    \/ GenerateFile
    \/ ParseFile
    \/ MeasureStart
    \/ hpc = "run" /\ Next
    \/ MeasureEnd
    \/ CellWrite

SpecMain == InitMain /\ [][NextMain]_vars

\* generate_all_files on its own, for every num_ops up to GenOps and one
\* sequence of draws
InitGenerate ==
    /\ NoRun
    /\ \E n \in 0 .. GenOps : MainStarts(n, [k \in 1 .. n |-> k % 5])

NextGenerate == GenerateFile

SpecGenerate == InitGenerate /\ [][NextGenerate]_vars

\* lines a trace file written by hand may hold, as their tokens
HandLines ==
    { <<>>, <<"noop">>, <<"string">>,
      <<"read">>, <<"read", "x">>, <<"read", "1">>, <<"read", "-1">>,
      <<"write">>, <<"write", "0">>, <<"write", "x", "7">>,
      <<"write", "0", "x">>, <<"write", "1", "7">> }

\* measure_all about to parse the one file of variant 0 with one thread, the
\* file holding FileLines hand-written lines or fewer
InitParse ==
    /\ NoRun
    /\ hpc = "parse"
    /\ num_ops = 0
    /\ stream = <<>>
    /\ \E n \in 0 .. FileLines :
           \E lines \in [1 .. n -> HandLines] :
               files = [name \in {FileName(0, 1, 0)} |-> lines]
    /\ variant = 0
    /\ nthreads = 1
    /\ piece = 0
    /\ rep = 0
    /\ total_time = 0
    /\ results = ZeroTable
    /\ clock = 0
    /\ start = 0
    /\ runlog = <<>>
    /\ cell_log = <<>>

NextParse == ParseFile

SpecParse == InitParse /\ [][NextParse]_vars

(* ------------------------------------------------------------------ *)
(* Properties                                                          *)
(* ------------------------------------------------------------------ *)

\* the worker thread is running and execute has not returned
Running(w) == pc[w] # "unborn" /\ pc[w] # "done"

\* the mutexes worker w owns
Held(w) == {f \in Fields : mutexes[f] = w}

\* C1: no interleaving of set, get and the snapshot conversion deadlocks:
\* whenever some worker thread is running (it has an unfinished operation or
\* has yet to leave execute), some worker can take a step.
C1_NoDeadlock ==
    (\E w \in Workers : Running(w)) => (\E w \in Workers : ENABLED WorkerStep(w))

\* C1 witness: two snapshots in progress, each holding one of the two
\* mutexes and about to try the other (the circular-wait shape).
C1_Witness ==
    \E a, b \in Workers :
        /\ a # b
        /\ pc[a] = "str_try" /\ pc[b] = "str_try"
        /\ mutexes[0] = a /\ mutexes[1] = b

\* C2: a get on a valid field returns 0 or a value some set had already
\* stored in that field when the get read it.
C2_GetReadsWritten ==
    \A w \in Workers :
        (pc[w] = "get_unlock") =>
            /\ Len(val[w]) = 1
            /\ val[w][1] \in written[Cur(w).field]

\* C2 witness: a get holds a non-zero value it read from field 0 while field
\* 1 still holds a different value.
C2_Witness ==
    \E w \in Workers :
        /\ pc[w] = "get_unlock"
        /\ Cur(w).field = 0
        /\ val[w] = <<7>>
        /\ data[1] = 0

\* what a snapshot of record contents d returns
SnapshotOf(d) == to_string(d[0]) \o " " \o to_string(d[1])

\* C3: the string a snapshot returns is the contents of the record at one
\* instant of the call: when its second read completes, the string equals
\* (data[0], data[1]) as they stand.
C3_SnapshotAtomic ==
    \A w \in Workers :
        (pc[w] = "str_unlock1") => tmp[w] = SnapshotOf(data)

\* C3 witness: a snapshot has produced a pair that shows another worker's
\* write of field 1, while that worker waits to write field 0.
C3_Witness ==
    \E w, u \in Workers :
        /\ pc[w] = "str_unlock1"
        /\ tmp[w] = "0 1"
        /\ pc[u] = "set"
        /\ Cur(u).field = 0

\* C4: under fair scheduling every run terminates: run_once eventually
\* returns.
C4_Terminates == <>(mpc = "returned")

\* C5: run_once starts one worker per workload and returns only after every
\* worker has executed its last operation: once the spawn loop is over every
\* worker thread exists, and when run_once has returned every worker has left
\* execute with its whole workload consumed and holds nothing.
C5_ReturnAfterAll ==
    /\ (mpc = "spawn") => \A w \in Workers : (pc[w] = "unborn") <=> (w >= mi)
    /\ (mpc # "spawn") => \A w \in Workers : pc[w] # "unborn"
    /\ (mpc = "returned") =>
           \A w \in Workers :
               /\ pc[w] = "done"
               /\ it[w] = Len(action_lists[w]) + 1

\* C5 witness: run_once has returned from a run of three workers in which
\* both fields were written.
C5_Witness ==
    /\ mpc = "returned"
    /\ Len(action_lists) = 3
    /\ data[0] = 1 /\ data[1] = 1

\* C6: a worker executes its workload in order, each action once: an
\* operation begins only at the loop head, is the one for the action at the
\* loop position, and begins with no mutex held; the position moves only when
\* an operation returns, by exactly one, and with every mutex released.
C6_InOrder ==
    [][\A w \in Workers :
          /\ (pc[w] = "loop" /\ pc'[w] # "loop" /\ pc'[w] # "done") =>
                 /\ it[w] <= Len(action_lists[w])
                 /\ pc'[w] = OpEntry(action_lists[w][it[w]])
                 /\ it'[w] = it[w]
                 /\ \A f \in Fields : mutexes[f] # w /\ mutexes'[f] # w
          /\ (pc[w] # "loop" /\ pc[w] # "unborn") =>
                 \/ it'[w] = it[w] /\ pc'[w] # "loop"
                 \/ /\ it'[w] = it[w] + 1
                    /\ pc'[w] = "loop"
                    /\ \A f \in Fields : mutexes'[f] # w
          /\ (pc[w] = "loop" /\ pc'[w] = "done") => it[w] = Len(action_lists[w]) + 1
          /\ (pc[w] = "loop" \/ pc[w] = "unborn") => it'[w] = it[w]
      ]_vars

\* C6 witness: a worker is inside its second operation while another worker
\* holds a mutex.
C6_Witness ==
    \E w, u \in Workers :
        /\ w # u
        /\ it[w] = 2 /\ pc[w] = "set_write"
        /\ Held(u) # {}

\* C7: a get or set on a valid field waits for that field's mutex only: when
\* that mutex is free the call can take it, whoever holds the other one, and
\* while inside the call the worker owns that mutex and no other.
C7_OwnFieldOnly ==
    \A w \in Workers :
        /\ (pc[w] \in {"get", "set"} /\ ~OutOfRange(Cur(w).field)
              /\ mutexes[Cur(w).field] = 0)
               => ENABLED (GetLock(w) \/ SetLock(w))
        /\ (pc[w] \in {"get", "set"}) => Held(w) = {}
        /\ (pc[w] \in {"get_read", "get_unlock", "set_write", "set_unlock"})
               => Held(w) = {Cur(w).field}

\* C7 witness: a get on field 0 finds mutex 0 free while another worker is
\* inside a set on field 1, holding mutex 1.
C7_Witness ==
    \E w, u \in Workers :
        /\ pc[w] = "get" /\ Cur(w).field = 0 /\ mutexes[0] = 0
        /\ pc[u] = "set_write" /\ Cur(u).field = 1 /\ mutexes[1] = u

\* C8: a field changes only at the write step of a set on that field, to the
\* value of that set, and that step leaves the other field unchanged; get and
\* snapshot change no field.
C8_FrameOfSet ==
    [][\A f \in Fields :
          (data'[f] # data[f]) =>
              \E w \in Workers :
                  /\ pc[w] = "set_write" /\ pc'[w] = "set_unlock"
                  /\ Cur(w).field = f
                  /\ data'[f] = Cur(w).value
                  /\ \A g \in Fields \ {f} : data'[g] = data[g]
      ]_vars

\* C8 witness: a set has just stored 7 in field 1 while field 0 is still 0.
C8_Witness ==
    \E w \in Workers :
        /\ pc[w] = "set_unlock" /\ Cur(w).field = 1
        /\ data[1] = 7 /\ data[0] = 0

\* C9: a set on a field out of range never blocks and has no effect: it can
\* always return, whoever holds the mutexes, and its return changes no field
\* and no mutex.
C9_SetInvalidNoEffect ==
    [][\A w \in Workers :
          (pc[w] = "set" /\ OutOfRange(Cur(w).field)) =>
              /\ ENABLED SetInvalid(w)
              /\ (pc'[w] # pc[w]) =>
                     /\ pc'[w] = "loop" /\ it'[w] = it[w] + 1
                     /\ data' = data
                     /\ mutexes' = mutexes
      ]_vars

\* C9 witness: a set on field 2 has been called while another worker holds
\* both mutexes inside a snapshot.
C9_Witness ==
    \E w, u \in Workers :
        /\ pc[w] = "set" /\ Cur(w).field = 2
        /\ pc[u] = "str_read" /\ Held(u) = Fields

\* C10: a get on a field out of range never blocks and returns 0: it can
\* always return, whoever holds the mutexes, and its return yields 0 and
\* changes no field and no mutex.
C10_GetInvalidZero ==
    [][\A w \in Workers :
          (pc[w] = "get" /\ OutOfRange(Cur(w).field)) =>
              /\ ENABLED GetInvalid(w)
              /\ (pc'[w] # pc[w]) =>
                     /\ pc'[w] = "loop" /\ it'[w] = it[w] + 1
                     /\ val'[w] = <<0>>
                     /\ data' = data
                     /\ mutexes' = mutexes
      ]_vars

\* C10 witness: a get on field -1 has been called while field 0 holds 7 and
\* another worker, inside the set that stored it, still holds mutex 0.
C10_Witness ==
    \E w, u \in Workers :
        /\ pc[w] = "get" /\ Cur(w).field = -1
        /\ data[0] = 7
        /\ pc[u] = "set_unlock" /\ mutexes[0] = u

\* the value of the latest WRITE to field f among the first n actions of a
\* workload, 0 when there is none
RECURSIVE LatestWrite(_, _, _)
LatestWrite(actions, n, f) ==
    IF n = 0 THEN 0
    ELSE IF actions[n].op = "WRITE" /\ actions[n].field = f
           THEN actions[n].value
    ELSE LatestWrite(actions, n - 1, f)

\* the workload has a WRITE to field f
WritesTo(actions, f) ==
    \E n \in 1 .. Len(actions) : actions[n].op = "WRITE" /\ actions[n].field = f

\* C12: in a single-worker run each Read(f) observes the value of the latest
\* Write(f, _) before it in the workload (0 if none), and once the worker has
\* finished each field holds the value of the last Write to it (0 if none).
C12_SingleWorker ==
    (Len(action_lists) = 1) =>
        /\ (pc[1] = "get_unlock") =>
               val[1] = <<LatestWrite(action_lists[1], it[1] - 1, Cur(1).field)>>
        /\ (pc[1] = "done") =>
               \A f \in Fields :
                   data[f] = LatestWrite(action_lists[1], Len(action_lists[1]), f)

\* C12 witness: the run of the single workload [Write(0,7), Read(0)] has
\* returned with field 0 equal to 7.
C12_Witness ==
    /\ action_lists = << <<Action("WRITE", 0, 7), Action("READ", 0, 0)>> >>
    /\ mpc = "returned"
    /\ data[0] = 7

\* C13: a worker with an empty workload never holds a mutex and is never
\* inside an operation, its steps change no field and no mutex and nothing of
\* another worker, and it can always leave execute, so the run's join of it
\* never waits on a mutex.
C13_EmptyWorkload ==
    [][\A w \in Workers :
          (Len(action_lists[w]) = 0) =>
              /\ pc[w] \in {"unborn", "loop", "done"}
              /\ Held(w) = {}
              /\ (pc[w] = "loop") => ENABLED ExecEnd(w)
              /\ (pc'[w] # pc[w]) =>
                     /\ data' = data
                     /\ mutexes' = mutexes
                     /\ \A u \in Workers \ {w} :
                            pc'[u] = pc[u] /\ it'[u] = it[u] /\ val'[u] = val[u]
      ]_vars

\* C13 witness: a worker with an empty workload is about to leave execute
\* while another worker holds both mutexes inside a snapshot.
C13_Witness ==
    \E w, u \in Workers :
        /\ Len(action_lists[w]) = 0 /\ pc[w] = "loop"
        /\ pc[u] = "str_read" /\ Held(u) = Fields

\* C17: a snapshot reads a field only while it owns both mutexes, and what
\* it has read so far is still what the record holds: no set takes effect
\* between its two reads.
C17_SnapshotHoldsBoth ==
    \A w \in Workers :
        /\ (pc[w] = "str_read") =>
               /\ Held(w) = Fields
               /\ \A f \in Fields :
                      parts[w][f] = "" \/ parts[w][f] = to_string(data[f])
        /\ (pc[w] # "str_read") => parts[w] = NoParts

\* C17 witness: a snapshot has read field 1 and not yet field 0 while another
\* worker waits to write field 0.
C17_Witness ==
    \E w, u \in Workers :
        /\ pc[w] = "str_read" /\ parts[w][1] # "" /\ parts[w][0] = ""
        /\ pc[u] = "set" /\ Cur(u).field = 0

\* worker w is between taking and releasing the mutex of field f
InCritical(w, f) ==
    \/ pc[w] \in {"set_write", "set_unlock", "get_read", "get_unlock"}
         /\ Cur(w).field = f
    \/ pc[w] \in {"str_read", "str_unlock1"}
    \/ pc[w] = "str_unlock0" /\ f = 0
    \/ pc[w] \in {"str_try", "str_backoff"} /\ f = first[w]

\* the next step of worker w reads or writes data[f]
Accessing(w, f) ==
    \/ pc[w] \in {"set_write", "get_read"} /\ Cur(w).field = f
    \/ pc[w] = "str_read" /\ parts[w][f] = ""

\* C18: mutual exclusion per field: a worker about to read or write data[f]
\* owns mutex f, a worker inside the critical section of f is the owner of
\* mutex f, and no two workers are inside the critical section of one field.
C18_MutualExclusion ==
    \A f \in Fields :
        /\ \A w \in Workers : Accessing(w, f) => mutexes[f] = w
        /\ \A w \in Workers : InCritical(w, f) <=> mutexes[f] = w
        /\ \A w, u \in Workers : (InCritical(w, f) /\ InCritical(u, f)) => w = u

\* C18 witness: one worker is inside a set on field 0 while two other workers
\* wait for the same mutex.
C18_Witness ==
    \E w, u, x \in Workers :
        /\ u # x
        /\ pc[w] = "set_write" /\ Cur(w).field = 0
        /\ pc[u] = "get" /\ Cur(u).field = 0
        /\ pc[x] = "str" /\ first[x] = 0

\* C19: a worker holds no mutex between operations, before it starts and
\* after it has finished; a snapshot that has backed off holds nothing while
\* it waits; when run_once has returned both mutexes are free.
C19_LocksReleased ==
    /\ \A w \in Workers :
           (pc[w] \in {"unborn", "loop", "done", "set", "get", "str"})
               => Held(w) = {}
    /\ (mpc = "returned") => \A f \in Fields : mutexes[f] = 0

\* C19 witness: a snapshot has backed off and waits for mutex 1 with nothing
\* held, while another worker holds mutex 1.
C19_Witness ==
    \E w, u \in Workers :
        /\ pc[w] = "str" /\ first[w] = 1 /\ Held(w) = {}
        /\ mutexes[1] = u

\* C20: when the run has completed, a field no workload writes is 0, and a
\* field some workload writes holds the value of the last Write to it in
\* some worker's workload; when every Write carries 1 (generated traces) the
\* field is 1 exactly when some worker writes it.
C20_FinalValues ==
    (mpc = "returned") =>
        \A f \in Fields :
            LET writers == {w \in Workers : WritesTo(action_lists[w], f)}
            IN  /\ (writers = {}) => data[f] = 0
                /\ (writers # {}) =>
                       \E w \in writers :
                           data[f] = LatestWrite(action_lists[w],
                                                 Len(action_lists[w]), f)
                /\ (\A w \in Workers : \A n \in 1 .. Len(action_lists[w]) :
                        action_lists[w][n].op = "WRITE"
                            => action_lists[w][n].value = 1)
                       => (data[f] = 1 <=> writers # {})

\* C20 witness: a run of two workers has completed in which one worker wrote
\* field 0 twice, last with 7, the other wrote it once with 1, and the field
\* ended as 1.
C20_Witness ==
    /\ mpc = "returned"
    /\ Len(action_lists) = 2
    /\ action_lists[1] = <<Action("WRITE", 0, 1), Action("WRITE", 0, 7)>>
    /\ action_lists[2] = <<Action("WRITE", 0, 1)>>
    /\ data[0] = 1

(* ------------------------------------------------------------------ *)
(* Properties of main: measure_time, parse_file, generate_all_files,   *)
(* measure_all                                                         *)
(* ------------------------------------------------------------------ *)

\* some action of the lists writes field f (through a set that stores)
RunWrites(lists, f) ==
    \E w \in 1 .. Len(lists) : WritesTo(lists[w], f)

\* C11: every timed run starts on a SafeStruct whose fields are both 0 and
\* whose mutexes are both free, whatever earlier runs wrote; no state of the
\* record survives: what a run has left in a field when run_once returns
\* comes from its own writes
C11_FreshRecord ==
    /\ (hpc = "run" /\ mpc = "spawn" /\ mi = 1) =>
          /\ \A f \in Fields : data[f] = 0 /\ mutexes[f] = 0
          /\ \A w \in DOMAIN pc : pc[w] = "unborn"
    /\ (hpc = "run" /\ mpc = "returned") =>
          \A f \in Fields : data[f] = IF RunWrites(action_lists, f) THEN 1 ELSE 0

\* a repeat starts right after a run that left a 1 in field 0
C11_Witness ==
    /\ hpc = "run" /\ mpc = "spawn" /\ mi = 1
    /\ rep >= 1
    /\ runlog[Len(runlog)].final[0] = 1
    /\ data[0] = 0

\* a line of one of the three forms
WellFormed(line) ==
    \/ line = <<"string">>
    \/ Len(line) = 2 /\ line[1] = "read" /\ line[2] \in IntTokens
    \/ Len(line) = 3 /\ line[1] = "write" /\ line[2] \in IntTokens
                     /\ line[3] \in IntTokens

\* the operation a line of one of the three forms stands for
OperationOf(line) ==
    IF line[1] = "read" THEN Action("READ", TokenInt(line[2]), 0)
    ELSE IF line[1] = "write"
      THEN Action("WRITE", TokenInt(line[2]), TokenInt(line[3]))
    ELSE Action("STR", -1, 0)

\* the operations of the well-formed lines, in line order
RECURSIVE OperationsOf(_)
OperationsOf(lines) ==
    IF Len(lines) = 0 THEN <<>>
    ELSE (IF WellFormed(Head(lines)) THEN <<OperationOf(Head(lines))>> ELSE <<>>)
            \o OperationsOf(Tail(lines))

\* C14: parse_file produces exactly one operation, in line order, for each
\* line of one of the three forms and none for any other line (a read or
\* write line whose integer is missing or is no integer is skipped)
C14_MalformedSkipped ==
    (hpc = "parse" /\ piece = 1 /\ FileName(0, 1, 0) \in DOMAIN files) =>
        action_lists[1] = OperationsOf(files[FileName(0, 1, 0)])

\* the lengths of pieces 0 .. i - 1 of variant v with t threads, summed
RECURSIVE SumLens(_, _, _)
SumLens(v, t, i) ==
    IF i = 0 THEN 0
    ELSE SumLens(v, t, i - 1) + Len(files[FileName(v, t, i - 1)])

\* every piece of variant v with t threads has been written
AllWritten(v, t) == \A i \in 0 .. (t - 1) : FileName(v, t, i) \in DOMAIN files

\* C15: num_ops is split into exactly t pieces; piece i has
\* floor(num_ops/t) + 1 operations if i < num_ops mod t and floor(num_ops/t)
\* otherwise; the sizes sum to num_ops and differ by at most 1
C15_Partition ==
    \A v \in 0 .. (NumVariants - 1) : \A t \in 1 .. max_threads :
        /\ \A i \in 0 .. max_threads :
              FileName(v, t, i) \in DOMAIN files =>
                  /\ i < t
                  /\ Len(files[FileName(v, t, i)]) =
                         IF i < num_ops % t THEN (num_ops \div t) + 1
                                            ELSE num_ops \div t
        /\ AllWritten(v, t) =>
              /\ SumLens(v, t, t) = num_ops
              /\ \A i, j \in 0 .. (t - 1) :
                    Len(files[FileName(v, t, i)]) - Len(files[FileName(v, t, j)]) <= 1
        /\ hpc # "generate" => AllWritten(v, t)

\* all files are written, and with 3 threads a remainder of 1 went to piece 0
C15_Witness ==
    /\ hpc = "parse"
    /\ num_ops >= 4 /\ num_ops % 3 = 1
    /\ Len(files[FileName(0, 3, 0)]) = Len(files[FileName(0, 3, 1)]) + 1
    /\ Len(files[FileName(0, 3, 1)]) = Len(files[FileName(0, 3, 2)])

\* the logged runs of variant v with t threads, in the order they ran
RunsOf(v, t) ==
    LET Wanted(r) == r.variant = v /\ r.t = t
    IN  SelectSeq(runlog, Wanted)

RECURSIVE SumDurations(_, _)
SumDurations(runs, n) ==
    IF n = 0 THEN 0 ELSE SumDurations(runs, n - 1) + runs[n].duration

\* C16: measure_all assigns every cell (v, t) of the table exactly once and no
\* cell outside it; the cell holds the sum of the durations of exactly Repeats
\* runs divided by Repeats, each run with t workers on the pieces 0 .. t-1 of
\* variant v
C16_TableCells ==
    /\ \A k \in 1 .. Len(cell_log) :
          /\ cell_log[k][1] \in 0 .. (TableSize - 1)
          /\ cell_log[k][2] \in 0 .. (TableSize - 1)
          /\ \A j \in 1 .. Len(cell_log) : cell_log[j] = cell_log[k] => j = k
    /\ \A v \in 0 .. (TableSize - 1) : \A c \in 0 .. (TableSize - 1) :
          IF \E k \in 1 .. Len(cell_log) : cell_log[k] = <<v, c>>
            THEN LET runs == RunsOf(v, c + 1)
                 IN  /\ Len(runs) = Repeats
                     /\ results[v][c] = <<SumDurations(runs, Repeats), Repeats>>
                     /\ \A n \in 1 .. Repeats :
                           runs[n].duration >= 0 /\ runs[n].workers = c + 1
            ELSE results[v][c] = <<0, 1>>
    /\ hpc = "run" =>
          /\ Len(action_lists) = nthreads
          /\ \A i \in 0 .. (nthreads - 1) :
                action_lists[i + 1] =
                    parse_file(files[FileName(variant, nthreads, i)],
                               NoJunk(files[FileName(variant, nthreads, i)]))
    /\ hpc = "print" =>
          \A v \in 0 .. (TableSize - 1) : \A c \in 0 .. (TableSize - 1) :
              \E k \in 1 .. Len(cell_log) : cell_log[k] = <<v, c>>

\* measure_all has returned with all nine cells assigned, the runs with three
\* workers having taken longer than those with one
C16_Witness ==
    /\ hpc = "print"
    /\ Len(cell_log) = TableSize * TableSize
    /\ num_ops = MainOps
    /\ results[2][2][2] = Repeats
    /\ results[2][2][1] > results[0][0][1]

====
